---- MODULE Spec2Model ----
(***************************************************************************)
(* DataSense (src/app.py): a Streamlit page.  Every interaction with a     *)
(* widget re-runs main() from the top; the only state that survives from   *)
(* one run to the next is the value of the widgets (uploaded file, key     *)
(* field, question text).  One action of this module is one interaction    *)
(* together with the whole run of main() it triggers.                      *)
(*                                                                         *)
(* Python strings are TLA+ strings; Python values that reach the response  *)
(* dispatcher are records [tag, num, exp, special, text], where tag is the *)
(* Python type and a finite float is num / 2^exp (exactly representable in *)
(* binary, as every float is).                                             *)
(*                                                                         *)
(* The libraries are the environment: the pandas readers are functions of  *)
(* the uploaded bytes (each run reads the upload from its start), the      *)
(* Query Engine answers with any value or raises at any step of the        *)
(* wrapper, and the widgets of the presentation layer render what they are *)
(* given.                                                                  *)
(***************************************************************************)
EXTENDS Integers, Sequences, FiniteSets, TLC

VARIABLES
    secrets,        \* st.secrets, a mapping fixed for the session
    key_input,      \* value of the sidebar "OpenAI API Key" field
    uploaded_file,  \* value of the file uploader: None or a file
    user_question,  \* value of the question text area
    api_key,        \* main: api_key of the latest run
    df,             \* main: df of the latest run (None without a Dataset)
    parser_call,    \* the pandas reader load_data called in the latest run
    load_message,   \* the st.error text of load_data in the latest run
    engine,         \* what the Query Engine did in the latest run
    engine_call,    \* the arguments main handed to the engine wrapper
    response,       \* main: response of the latest run
    path,           \* the branch of the dispatcher taken in the latest run
    body,           \* the text placed in the result callout
    screen,         \* the elements rendered by the latest run
    analyze_btn,    \* main: analyze_btn of the latest run (FALSE if not rendered)
    engine_calls,   \* calls of analyze_with_pandasai made by the latest run
    loads,          \* reader calls made for the current uploaded file
    history,        \* kinds of engine outcome seen in earlier runs
    faulted_keys,   \* credentials an earlier engine build fault was reported for
    engine_cache    \* the Query Engine's own answer cache

vars == <<secrets, key_input, uploaded_file, user_question, api_key, df,
          parser_call, load_message, engine, engine_call, response, path,
          body, screen, analyze_btn, engine_calls, loads, history,
          faulted_keys, engine_cache>>

----------------------------------------------------------------------------
(* Bounds *)

\* reader calls allowed on one uploaded file before the model stops re-running
MaxLoads == 4

----------------------------------------------------------------------------
(* Python values *)

Val(tag, num, exp, special, text) ==
    [tag |-> tag, num |-> num, exp |-> exp, special |-> special, text |-> text]

None == Val("NoneType", 0, 0, "", "")

PyStr(s) == Val("str", 0, 0, "", s)

\* the finite float num / 2^exp
PyFloat(num, exp) == Val("float", num, exp, "", "")

NaN == Val("float", 0, 0, "nan", "")

PosInf == Val("float", 0, 0, "inf", "")

NegInf == Val("float", 0, 0, "-inf", "")

PyInt(n) == Val("int", n, 0, "", "")

\* an int beyond the range of a float (abs value >= 2^1024)
HugeInt == Val("int", 0, 0, "overflow", "")

PyBool(b) == Val("bool", IF b THEN 1 ELSE 0, 0, "", "")

\* a pandas DataFrame; text identifies its content
Frame(id) == Val("DataFrame", 0, 0, "", id)

Series(id) == Val("Series", 0, 0, "", id)

\* any object that is none of the above (a figure, a dict, a numpy integer)
Object(id) == Val("object", 0, 0, "", id)

\* str.startswith
startswith(s, prefix) ==
    /\ Len(s) >= Len(prefix)
    /\ SubSeq(s, 1, Len(prefix)) = prefix

\* str.endswith
endswith(s, suffix) ==
    /\ Len(s) >= Len(suffix)
    /\ SubSeq(s, Len(s) - Len(suffix) + 1, Len(s)) = suffix

\* truthiness of a str: `if api_key`, `if user_question`
Truthy(s) == s # ""

----------------------------------------------------------------------------
(* The format specification ",.2f" of line 521 *)

Digit(d) == SubSeq("0123456789", d + 1, d + 1)

RECURSIVE Digits(_)
Digits(n) == IF n < 10 THEN Digit(n) ELSE Digits(n \div 10) \o Digit(n % 10)

Pad3(n) == Digit(n \div 100) \o Digit((n \div 10) % 10) \o Digit(n % 10)

\* a plausible slip: the "," option left out of the format specification
Ungrouped(n) == Digits(n)

\* the "," option: groups of three digits from the right
RECURSIVE Grouped(_)
Grouped(n) ==
    IF n < 1000 THEN Digits(n)
    ELSE Grouped(n \div 1000) \o "," \o Pad3(n % 1000)

RECURSIVE Pow2(_)
Pow2(k) == IF k = 0 THEN 1 ELSE 2 * Pow2(k - 1)

Abs(n) == IF n < 0 THEN -n ELSE n

\* |num / 2^exp| in hundredths, rounded to nearest, ties to the even
\* hundredth: the correctly rounded ".2f" conversion of the exact binary value
Cents(num, exp) ==
    LET den == Pow2(exp)
        scaled == Abs(num) * 100
        q == scaled \div den
        r == scaled % den
    IN  IF 2 * r > den THEN q + 1
        ELSE IF 2 * r < den THEN q
        ELSE IF q % 2 = 0 THEN q ELSE q + 1

\* format(value, ",.2f") for an int, bool or float: the text, or the
\* OverflowError an int too large for a float raises
Format2f(value) ==
    IF value.special = "overflow"
    THEN [raised |-> TRUE, text |-> "int too large to convert to float"]
    ELSE IF value.special # ""
    THEN [raised |-> FALSE, text |-> value.special]
    ELSE LET c == Cents(value.num, value.exp)
         IN  [raised |-> FALSE,
              text |-> (IF value.num < 0 THEN "-" ELSE "")
                       \o Grouped(c \div 100) \o "."
                       \o Digit((c % 100) \div 10) \o Digit(c % 10)]

----------------------------------------------------------------------------
(* The response dispatcher, lines 511-533 of main *)

\* a plausible slip: the test for None left out
NeverNone(value) == TRUE

\* line 513: response is not None
IsNotNone(value) == value # None

\* a plausible slip: only pd.DataFrame is tested
IsFrameOnly(value) == value.tag = "DataFrame"

\* line 514: isinstance(response, (pd.DataFrame, pd.Series))
IsTable(value) == value.tag \in {"DataFrame", "Series"}

\* a plausible slip: the exact type is tested, type(response) in (int, float)
IsExactNumber(value) == value.tag \in {"int", "float"}

\* line 517: isinstance(response, (int, float)); bool is a subclass of int
IsNumber(value) == value.tag \in {"bool", "int", "float"}

\* a plausible slip: the sentinel written with its blank, "Error: "
IsErrorSentinelBlank(value) ==
    value.tag = "str" /\ startswith(value.text, "Error: ")

\* line 524: isinstance(response, str) and response.startswith("Error:")
IsErrorSentinel(value) ==
    value.tag = "str" /\ startswith(value.text, "Error:")

Shown(p, elements, text) == [path |-> p, elements |-> elements, body |-> text]

\* lines 511-533: the header, then the first branch whose test holds.  The
\* f-string of the numeric branch is evaluated before st.markdown is called,
\* so an OverflowError in it reaches the handler of line 532 with no callout.
Dispatch(value) ==
    IF IsNotNone(value)
    THEN IF IsTable(value)
         THEN Shown("table", {"results_header", "result_table"}, "")
         ELSE IF IsNumber(value)
         THEN LET f == Format2f(value)
              IN  IF f.raised
                  THEN Shown("numeric", {"results_header", "unexpected_error"},
                             "An unexpected error occurred: " \o f.text)
                  ELSE Shown("numeric", {"results_header", "result_number"},
                             f.text)
         ELSE IF IsErrorSentinel(value)
         THEN Shown("error", {"results_header", "result_error"},
                    "**Analysis Error:** " \o value.text)
         ELSE Shown("text", {"results_header", "result_text"}, value.text)
    ELSE Shown("empty", {"results_header", "result_empty"},
               "The analysis was completed but no specific output was returned.")

----------------------------------------------------------------------------
(* Credential, lines 207-222 *)

KeyName == "OPENAI_API_KEY"

\* the key of the secret store when it holds one, else the sidebar field
get_openai_api_key(store, field) ==
    IF KeyName \in DOMAIN store
    THEN [api_key |-> store[KeyName], elements |-> {}]
    ELSE [api_key |-> field,
          elements |-> {"key_field"}
                       \cup (IF Truthy(field) THEN {"key_ok"} ELSE {})]

----------------------------------------------------------------------------
(* Loading, lines 224-237 *)

\* pd.read_csv on the bytes of the upload: a frame, or the parser's exception
read_csv(content) ==
    IF content.format = "csv"
    THEN [raised |-> FALSE, df |-> Frame(content.id), msg |-> ""]
    ELSE [raised |-> TRUE, df |-> None, msg |-> "Error tokenizing data"]

\* pd.read_excel on the bytes of the upload
read_excel(content) ==
    IF content.format = "excel"
    THEN [raised |-> FALSE, df |-> Frame(content.id), msg |-> ""]
    ELSE [raised |-> TRUE, df |-> None, msg |-> "File is not a zip file"]

\* lines 234-237: the frame, or the handler's st.error and None
Loaded(parser, r) ==
    IF r.raised
    THEN [df |-> None, parser |-> parser,
          message |-> "Error loading file: " \o r.msg]
    ELSE [df |-> r.df, parser |-> parser, message |-> ""]

UnsupportedMessage ==
    "Unsupported file format. Please upload CSV or Excel files."

\* a plausible slip: every name that is not Excel is handed to read_csv
load_data_csv_default(file) ==
    IF endswith(file.name, ".xlsx") \/ endswith(file.name, ".xls")
    THEN Loaded("read_excel", read_excel(file.content))
    ELSE Loaded("read_csv", read_csv(file.content))

\* a plausible slip: the upload is a stream that a second read finds consumed
load_data_consumed(file) ==
    IF endswith(file.name, ".csv")
    THEN Loaded("read_csv",
                IF loads > 0 /\ file = uploaded_file
                THEN [raised |-> TRUE, df |-> None,
                      msg |-> "No columns to parse from file"]
                ELSE read_csv(file.content))
    ELSE IF endswith(file.name, ".xlsx") \/ endswith(file.name, ".xls")
    THEN Loaded("read_excel", read_excel(file.content))
    ELSE [df |-> None, parser |-> "none", message |-> UnsupportedMessage]

load_data(file) ==
    IF endswith(file.name, ".csv")
    THEN Loaded("read_csv", read_csv(file.content))
    ELSE IF endswith(file.name, ".xlsx") \/ endswith(file.name, ".xls")
    THEN Loaded("read_excel", read_excel(file.content))
    ELSE [df |-> None, parser |-> "none", message |-> UnsupportedMessage]

----------------------------------------------------------------------------
(* The Query Engine and its wrapper, lines 397-410 *)

\* what the engine does when asked: it returns a value, or one of the three
\* steps of the wrapper (the imports, building the engine, chat) raises
Returns(value) ==
    [kind |-> "return", value |-> value, stage |-> "", exc |-> "", msg |-> ""]

Raises(stage, exc, msg) ==
    [kind |-> "raise", value |-> None, stage |-> stage, exc |-> exc,
     msg |-> msg]

NoOutcome ==
    [kind |-> "none", value |-> None, stage |-> "", exc |-> "", msg |-> ""]

NoCall == [df |-> None, question |-> "", api_token |-> "", enable_cache |-> FALSE,
           made |-> FALSE]

NoResponse == Val("unset", 0, 0, "", "")

\* a plausible slip: the cache left at the library's default
EngineConfigCached == [enable_cache |-> TRUE]

\* line 404: config={"llm": llm, "enable_cache": False}
EngineConfig == [enable_cache |-> FALSE]

\* line 405, smart_df.chat(question): with the cache enabled the engine
\* answers a question it has answered for this frame from its cache
chat(frame, question, config, outcome) ==
    LET hits == {e \in engine_cache :
                     e.frame = frame.text /\ e.question = question}
    IN  IF config.enable_cache /\ hits # {}
        THEN [outcome |-> Returns((CHOOSE e \in hits : TRUE).value),
              cache |-> engine_cache]
        ELSE [outcome |-> outcome,
              cache |-> IF config.enable_cache /\ outcome.kind = "return"
                        THEN engine_cache
                             \cup {[frame |-> frame.text,
                                    question |-> question,
                                    value |-> outcome.value]}
                        ELSE engine_cache]

ImportMessage ==
    "Error: pandasai is not installed. Please install it using: pip install pandasai"

\* a plausible slip: the handlers re-raise
HandledReraise(outcome) ==
    [raised |-> TRUE, response |-> NoResponse, msg |-> outcome.msg]

\* lines 407-410: the two handlers of the wrapper
Handled(outcome) ==
    IF outcome.exc = "ImportError"
    THEN [raised |-> FALSE, response |-> PyStr(ImportMessage), msg |-> ""]
    ELSE [raised |-> FALSE, response |-> PyStr("Error: " \o outcome.msg),
          msg |-> ""]

\* lines 397-410.  outcome is what the engine would do now; a raise at the
\* imports or while building the engine comes before chat is reached.
analyze_with_pandasai(frame, question, key, outcome) ==
    LET call == [df |-> frame, question |-> question, api_token |-> key,
                 enable_cache |-> EngineConfig.enable_cache, made |-> TRUE]
        early == outcome.kind = "raise" /\ outcome.stage # "chat"
        c == IF early
             THEN [outcome |-> outcome, cache |-> engine_cache]
             ELSE chat(frame, question, EngineConfig, outcome)
        h == IF c.outcome.kind = "raise"
             THEN Handled(c.outcome)
             ELSE [raised |-> FALSE, response |-> c.outcome.value, msg |-> ""]
    IN  [raised |-> h.raised, response |-> h.response, msg |-> h.msg,
         call |-> call, cache |-> c.cache]

----------------------------------------------------------------------------
(* main, lines 412-600: one run of the script *)

\* a plausible slip: the question area shown whether or not a key is set
KeyGateOpen(key) == TRUE

\* a plausible change: the question area withheld from a credential that an
\* engine build fault was reported for
KeyGateAfterFault(key) ==
    /\ Truthy(key)
    /\ key \notin faulted_keys
    /\ ~(engine.kind = "raise" /\ engine.stage = "build" /\ api_key = key)

\* line 487: if api_key
KeyGate(key) == Truthy(key)

\* a plausible slip: the question left out of the condition of line 506
AnalyzeGateAnyClick(clicked, question) == clicked

\* line 506: if analyze_btn and user_question
AnalyzeGate(clicked, question) == clicked /\ Truthy(question)

\* One run of main with the widgets at (field, file, question), the Analyze
\* button pressed or not, and the engine about to do outcome.  The result is
\* everything the run computed and rendered.
main(store, field, file, question, clicked, outcome) ==
    LET cred == get_openai_api_key(store, field)
        key == cred.api_key
        top == cred.elements \cup {"file_uploader"}
               \cup (IF ~Truthy(key) THEN {"api_key_card"} ELSE {})
        base == [api_key |-> key, df |-> None, parser_call |-> "none",
                 load_message |-> "", engine |-> NoOutcome,
                 engine_call |-> NoCall, response |-> NoResponse,
                 path |-> "none", body |-> "", screen |-> top,
                 analyze_btn |-> FALSE, engine_calls |-> 0,
                 cache |-> engine_cache]
    IN  IF file = None
        THEN [base EXCEPT !.screen = top \cup {"welcome"}]
        ELSE
        LET ld == load_data(file)
            loaded == [base EXCEPT !.df = ld.df, !.parser_call = ld.parser,
                                   !.load_message = ld.message]
            \* line 504: the button is rendered, and returns whether it was
            \* pressed
            asked == [loaded EXCEPT !.analyze_btn = clicked]
            data == top \cup {"overview", "quick_viz"}
            ask == data \cup {"question_input", "analyze_btn"}
        IN  IF ld.df = None
            THEN [loaded EXCEPT !.screen = top \cup {"load_error"}]
            ELSE IF ~KeyGate(key)
            THEN [loaded EXCEPT !.screen = data \cup {"no_key_warning"}]
            ELSE IF AnalyzeGate(clicked, question)
            THEN LET a == analyze_with_pandasai(ld.df, question, key, outcome)
                     d == Dispatch(a.response)
                 IN  IF a.raised
                     THEN [asked EXCEPT
                             !.engine = outcome, !.engine_call = a.call,
                             !.engine_calls = @ + 1,
                             !.cache = a.cache,
                             !.body = "An unexpected error occurred: " \o a.msg,
                             !.screen = ask \cup {"unexpected_error"}]
                     ELSE [asked EXCEPT
                             !.engine = outcome, !.engine_call = a.call,
                             !.engine_calls = @ + 1,
                             !.cache = a.cache, !.response = a.response,
                             !.path = d.path, !.body = d.body,
                             !.screen = ask \cup d.elements]
            ELSE IF clicked /\ ~Truthy(question)
            THEN [asked EXCEPT !.screen = ask \cup {"empty_question_warning"}]
            ELSE [asked EXCEPT !.screen = ask]

----------------------------------------------------------------------------
(* The inputs of a session *)

Keys == {"", "sk-good", "sk-bad"}

\* the keys the provider accepts
ValidKeys == {"sk-good"}

NoSecrets == [n \in {} |-> ""]

SecretStores == {NoSecrets} \cup {[n \in {KeyName} |-> k] : k \in Keys}

\* an upload: its name and its bytes (their format, and what they hold).  The
\* names include ones load_data does not accept: the uploader compares
\* extensions without regard to case, load_data with it.
File(name, format, id) ==
    [name |-> name, content |-> [format |-> format, id |-> id]]

Files ==
    { File("sales.csv", "csv", "A"),
      File("broken.csv", "junk", "J"),
      File("book.xlsx", "excel", "B"),
      File("old.xls", "excel", "C"),
      File("renamed.xlsx", "csv", "A"),
      File("notes.txt", "csv", "A"),
      File("DATA.CSV", "csv", "A") }

Questions == {"", "top 5 products", "average salary"}

QueryResults ==
    { Frame("result"), Series("result"), Object("figure"),
      Object("numpy.int64"), None,
      PyBool(TRUE), PyBool(FALSE),
      PyInt(0), PyInt(7), PyInt(-1000), PyInt(1234567), HugeInt,
      PyFloat(2469, 1), PyFloat(1, 3), PyFloat(3, 3), PyFloat(-1, 8),
      PyFloat(255999, 8), PyFloat(-2469, 1), NaN, PosInf, NegInf,
      PyStr(""), PyStr("Sales rose in March."), PyStr("Error:"),
      PyStr("Error: column not found"), PyStr("Error:revenue is up"),
      PyStr("Error"), PyStr("error: lower case"), PyStr(" Error: indented") }

Stages == {"import", "build", "chat"}

AuthMessage == "Incorrect API key provided"

Faults ==
    {Raises(st, "Exception", m) : st \in Stages, m \in {"", "column not found"}}
    \cup {Raises(st, "ImportError", "No module named 'pandasai'") : st \in Stages}

CredentialFaults ==
    {Raises(st, "Exception", AuthMessage) : st \in {"build", "chat"}}

\* what the engine may do when it is given key: an invalid key gets no answer
EngineOutcomes(key) ==
    IF key \in ValidKeys
    THEN {Returns(v) : v \in QueryResults} \cup Faults
    ELSE CredentialFaults
         \cup {Raises(st, "ImportError", "No module named 'pandasai'") :
                   st \in Stages}

\* NoOutcome: the engine is not asked
AllOutcomes ==
    {Returns(v) : v \in QueryResults} \cup Faults \cup CredentialFaults
    \cup {NoOutcome}

----------------------------------------------------------------------------
(* The session *)

\* an engine build fault that a bad credential caused
BadCredentialFault(e, key) ==
    e.kind = "raise" /\ e.stage = "build" /\ e.msg = AuthMessage
    /\ key \notin ValidKeys

\* the run of main that follows an interaction; n is the number of reader
\* calls already made for the file the run sees
Rerun(field, file, question, clicked, outcome, n) ==
    \E m \in {main(secrets, field, file, question, clicked, outcome)} :
        /\ secrets' = secrets
        /\ key_input' = field
        /\ uploaded_file' = file
        \* a widget that a run does not render loses its value
        /\ user_question' = IF "question_input" \in m.screen
                            THEN question ELSE ""
        /\ api_key' = m.api_key
        /\ df' = m.df
        /\ parser_call' = m.parser_call
        /\ load_message' = m.load_message
        /\ engine' = m.engine
        /\ engine_call' = m.engine_call
        /\ response' = m.response
        /\ path' = m.path
        /\ body' = m.body
        /\ screen' = m.screen
        /\ analyze_btn' = m.analyze_btn
        /\ engine_calls' = m.engine_calls
        /\ loads' = n + (IF m.parser_call = "none" THEN 0 ELSE 1)
        /\ history' = history
                      \cup (IF engine.kind = "none" THEN {} ELSE {engine.kind})
        /\ faulted_keys' = faulted_keys
                           \cup (IF BadCredentialFault(engine, api_key)
                                 THEN {api_key} ELSE {})
        /\ engine_cache' = m.cache

\* the page as first served: no upload, nothing typed
Init ==
    /\ secrets \in SecretStores
    /\ key_input = ""
    /\ uploaded_file = None
    /\ user_question = ""
    /\ loads = 0
    /\ history = {}
    /\ faulted_keys = {}
    /\ engine_cache = {}
    /\ LET m == main(secrets, "", None, "", FALSE, NoOutcome)
       IN  /\ api_key = m.api_key
           /\ df = m.df
           /\ parser_call = m.parser_call
           /\ load_message = m.load_message
           /\ engine = m.engine
           /\ engine_call = m.engine_call
           /\ response = m.response
           /\ path = m.path
           /\ body = m.body
           /\ screen = m.screen
           /\ analyze_btn = m.analyze_btn
           /\ engine_calls = m.engine_calls

\* the user types a key into the sidebar field
EnterKey(k) ==
    /\ "key_field" \in screen
    /\ k # key_input
    /\ loads < MaxLoads
    /\ Rerun(k, uploaded_file, user_question, FALSE, NoOutcome, loads)

\* the user uploads a file, which replaces the one before
Upload(f) ==
    /\ f \in Files
    /\ Rerun(key_input, f, user_question, FALSE, NoOutcome, 0)

\* the user removes the uploaded file
RemoveFile ==
    /\ uploaded_file # None
    /\ Rerun(key_input, None, user_question, FALSE, NoOutcome, 0)

\* the user edits the question
TypeQuestion(q) ==
    /\ "question_input" \in screen
    /\ q # user_question
    /\ loads < MaxLoads
    /\ Rerun(key_input, uploaded_file, q, FALSE, NoOutcome, loads)

\* the user presses Analyze; the engine does outcome if main asks it, which
\* it does when the question is not empty
ClickAnalyze(outcome) ==
    /\ "analyze_btn" \in screen
    /\ outcome \in EngineOutcomes(api_key) \cup {NoOutcome}
    /\ (outcome = NoOutcome) = ~Truthy(user_question)
    /\ loads < MaxLoads
    /\ Rerun(key_input, uploaded_file, user_question, TRUE, outcome, loads)

Next ==
    \/ \E k \in Keys : EnterKey(k)
    \/ \E f \in Files : Upload(f)
    \/ RemoveFile
    \/ \E q \in Questions : TypeQuestion(q)
    \/ \E o \in AllOutcomes : ClickAnalyze(o)

Spec == Init /\ [][Next]_vars

----------------------------------------------------------------------------
(* Vocabulary of the properties *)

\* main reached line 509 in the latest run
Called == engine_call.made

\* the dispatcher of lines 511-530 ran on a response in the latest run
Dispatched == response # NoResponse

PathElements ==
    {"result_table", "result_number", "result_error", "result_text",
     "result_empty"}

ElementOf(p) ==
    CASE p = "table" -> "result_table"
      [] p = "numeric" -> "result_number"
      [] p = "error" -> "result_error"
      [] p = "text" -> "result_text"
      [] p = "empty" -> "result_empty"
      [] OTHER -> "nothing"

HasErrorPrefix(text) == Len(text) >= 6 /\ SubSeq(text, 1, 6) = "Error:"

\* the rendering path the specification's order of cases gives a value
OrderedPath(value) ==
    IF value.tag \in {"DataFrame", "Series"} THEN "table"
    ELSE IF value.tag \in {"int", "float", "bool"} THEN "numeric"
    ELSE IF value.tag = "str" /\ HasErrorPrefix(value.text) THEN "error"
    ELSE IF value.tag # "NoneType" THEN "text"
    ELSE "empty"

----------------------------------------------------------------------------
(* C1 *)

\* C1: every response is dispatched to exactly one rendering path, the first
\* in the order table, number, "Error:" string, other non-null value, null
\* whose test it passes; no element of another path is rendered, and the
\* element of the chosen path is (for a number: unless formatting it raised,
\* which the handler of line 532 reports).
C1_FirstMatchDispatch ==
    Dispatched =>
        /\ path = OrderedPath(response)
        /\ (screen \cap PathElements) \subseteq {ElementOf(path)}
        /\ \/ ElementOf(path) \in screen
           \/ path = "numeric" /\ "unexpected_error" \in screen

\* a column series was answered and went to the table path
C1_Witness ==
    /\ Dispatched
    /\ response.tag = "Series"
    /\ path = "table"
    /\ "result_table" \in screen

----------------------------------------------------------------------------
(* C2 *)

\* C2 as stated: every fault of the engine becomes "Error: {message}" with
\* the message of the fault, rendered through the error path.
C2_FaultBecomesItsMessage ==
    engine.kind = "raise" =>
        /\ response = PyStr("Error: " \o engine.msg)
        /\ path = "error"

\* C2, amended: every fault raised by the imports, the build or the call of
\* the engine is caught in the wrapper and becomes a string with the "Error:"
\* prefix ("Error: " and the fault's message; for an ImportError the fixed
\* not-installed text), rendered as the error callout, never by the handler
\* of main; the question area stays on the page, and a question answered
\* after a failed one is dispatched as usual.
C2_FaultIsCaughtAndRendered ==
    /\ engine.kind = "raise" =>
          /\ response = PyStr(IF engine.exc = "ImportError"
                              THEN ImportMessage
                              ELSE "Error: " \o engine.msg)
          /\ HasErrorPrefix(response.text)
          /\ path = "error"
          /\ "result_error" \in screen
          /\ "unexpected_error" \notin screen
          /\ body = "**Analysis Error:** " \o response.text
          /\ {"question_input", "analyze_btn"} \subseteq screen
    /\ ("raise" \in history /\ engine.kind = "return") =>
          /\ response = engine.value
          /\ path = OrderedPath(engine.value)

\* a question was answered with a table after an earlier question had failed
C2_Witness ==
    /\ "raise" \in history
    /\ engine.kind = "return"
    /\ path = "table"

----------------------------------------------------------------------------
(* C3 *)

\* C3: a string response that begins with "Error:" takes the error path
\* whatever follows the prefix and whether the wrapper made it from a fault
\* or the engine returned it; it is never rendered as plain text.
C3_ErrorPrefixTakesErrorPath ==
    (Dispatched /\ response.tag = "str" /\ HasErrorPrefix(response.text)) =>
        /\ path = "error"
        /\ "result_error" \in screen
        /\ "result_text" \notin screen

\* the engine returned an answer that begins with "Error:" and no blank
C3_Witness ==
    /\ engine.kind = "return"
    /\ response = PyStr("Error:revenue is up")
    /\ path = "error"

----------------------------------------------------------------------------
(* C4 *)

SupportedName(name) ==
    \E ext \in {".csv", ".xlsx", ".xls"} :
        /\ Len(name) >= Len(ext)
        /\ SubSeq(name, Len(name) - Len(ext) + 1, Len(name)) = ext

\* C4: for an upload whose name ends in none of .csv, .xlsx, .xls no reader
\* is called, the unsupported-format error is shown, there is no Dataset,
\* and the run shows no overview, no visualisation and no question area and
\* calls no engine.
C4_UnsupportedUploadRejected ==
    (uploaded_file # None /\ ~SupportedName(uploaded_file.name)) =>
        /\ parser_call = "none"
        /\ df = None
        /\ load_message = UnsupportedMessage
        /\ "load_error" \in screen
        /\ screen \cap {"overview", "quick_viz", "question_input",
                        "analyze_btn"} = {}
        /\ ~Called

\* a .txt file is uploaded while a key is set
C4_Witness ==
    /\ uploaded_file # None
    /\ uploaded_file.name = "notes.txt"
    /\ Truthy(api_key)
    /\ "load_error" \in screen

----------------------------------------------------------------------------
(* C5 *)

NoKeyAvailable ==
    /\ (IF KeyName \in DOMAIN secrets THEN secrets[KeyName] = "" ELSE TRUE)
    /\ key_input = ""

\* C5: with no key in the secret store and none in the field, the question
\* area is not rendered and the engine is not called, while the uploader is,
\* and a loaded Dataset still gets its overview and quick visualisations.
C5_NoKeyBlocksOnlyQueryPath ==
    NoKeyAvailable =>
        /\ screen \cap {"question_input", "analyze_btn"} = {}
        /\ ~Called
        /\ "file_uploader" \in screen
        /\ df # None => {"overview", "quick_viz"} \subseteq screen

\* a Dataset is loaded and shown while no key is available
C5_Witness ==
    /\ NoKeyAvailable
    /\ df # None
    /\ {"overview", "quick_viz", "no_key_warning"} \subseteq screen

----------------------------------------------------------------------------
(* C6 *)

\* C6: a null response gets the empty-result notice and the element of no
\* other path, and the handler of line 532 does not fire.
C6_NullGetsEmptyNotice ==
    (Dispatched /\ response = None) =>
        /\ path = "empty"
        /\ screen \cap PathElements = {"result_empty"}
        /\ "unexpected_error" \notin screen
        /\ body = "The analysis was completed but no specific output was returned."

\* the engine returned None
C6_Witness ==
    /\ engine.kind = "return"
    /\ engine.value = None
    /\ Dispatched
    /\ "result_empty" \in screen

----------------------------------------------------------------------------
(* C7 *)

Char(t, i) == SubSeq(t, i, i)

IsDigitChar(c) == c \in {"0", "1", "2", "3", "4", "5", "6", "7", "8", "9"}

DigitOf(c) == CHOOSE d \in 0..9 : Char("0123456789", d + 1) = c

Unsigned(t) ==
    IF Len(t) > 0 /\ Char(t, 1) = "-" THEN SubSeq(t, 2, Len(t)) ELSE t

\* t is an optional sign, digits in groups of three divided by commas, a
\* point and exactly two digits
TwoDecimalsGrouped(t) ==
    LET u == Unsigned(t)
        n == Len(u)
        w == n - 3
    IN  /\ n >= 4
        /\ Char(u, n - 2) = "."
        /\ IsDigitChar(Char(u, n - 1))
        /\ IsDigitChar(Char(u, n))
        /\ w % 4 # 0
        /\ w > 1 => Char(u, 1) # "0"
        /\ \A i \in 1..w :
              IF (w - i + 1) % 4 = 0
              THEN Char(u, i) = ","
              ELSE IsDigitChar(Char(u, i))

\* the number the digits of t spell, separators and point skipped: the
\* hundredths a two-decimal text shows
RECURSIVE DigitsValue(_)
DigitsValue(t) ==
    IF t = "" THEN 0
    ELSE LET c == Char(t, Len(t))
             rest == SubSeq(t, 1, Len(t) - 1)
         IN  IF IsDigitChar(c) THEN 10 * DigitsValue(rest) + DigitOf(c)
             ELSE DigitsValue(rest)

\* text shows value to within half a hundredth, with its sign
ShowsValue(text, value) ==
    LET den == Pow2(value.exp)
        diff == DigitsValue(text) * den - Abs(value.num) * 100
    IN  /\ 2 * Abs(diff) <= den
        /\ (Len(text) > 0 /\ Char(text, 1) = "-") <=> value.num < 0

NumericResponse == Dispatched /\ response.tag \in {"int", "float", "bool"}

----------------------------------------------------------------------------
(* C8 *)

\* C8: whatever was asked before and however it ended, a question is handed
\* to the engine with the Dataset, the question text and the key of this run
\* and with the cache off; the response is what the engine does now, and the
\* path depends on that response alone; the engine's cache stays empty.
C8_QuestionsAreIndependent ==
    /\ engine_cache = {}
    /\ Called =>
          /\ engine_call = [df |-> df, question |-> user_question,
                            api_token |-> api_key, enable_cache |-> FALSE,
                            made |-> TRUE]
          /\ engine.kind = "return" =>
                /\ response = engine.value
                /\ path = OrderedPath(engine.value)
          /\ engine.kind = "raise" => path = "error"

\* a question is answered after answered and failed questions
C8_Witness ==
    /\ history = {"return", "raise"}
    /\ Called
    /\ engine.kind = "return"

----------------------------------------------------------------------------
(* C9 *)

\* C9 as stated: once an engine build fault caused by a bad credential was
\* reported, no question is handed to the engine with that credential.
C9_NoCallAfterCredentialFault ==
    api_key \in faulted_keys => ~Called

\* C9, amended: an engine build fault caused by a bad credential is reported
\* inline as the error callout "Error: {message}", and the query path stays
\* open: the question area is rendered in that run and in every later run
\* with a Dataset and the same credential, so a further question is handed
\* to the engine with it.
C9_FaultReportedPathStaysOpen ==
    /\ BadCredentialFault(engine, api_key) =>
          /\ response = PyStr("Error: " \o AuthMessage)
          /\ path = "error"
          /\ "result_error" \in screen
          /\ {"question_input", "analyze_btn"} \subseteq screen
    /\ (api_key \in faulted_keys /\ df # None) =>
          {"question_input", "analyze_btn"} \subseteq screen

\* a question is handed to the engine with a credential whose build fault
\* was reported before
C9_Witness ==
    /\ api_key \in faulted_keys
    /\ Called
    /\ engine_call.api_token = api_key

----------------------------------------------------------------------------
(* C10 *)

\* the step is the user editing the question (to the text it has after the
\* step) or pressing Analyze (with the engine doing what it did in the step)
QuestionStep ==
    \/ TypeQuestion(user_question')
    \/ ClickAnalyze(engine')

\* C10 as stated: the file is loaded once; editing or submitting a question
\* on the same uploaded file triggers no other load and leaves the Dataset.
C10_QuestionsTriggerNoLoad ==
    [][QuestionStep => (loads' = loads /\ df' = df)]_vars

\* C10, amended: every run of main loads the uploaded file again, and the
\* load gives the same Dataset as long as the uploaded file is the same:
\* editing or submitting a question keeps the uploaded file and the Dataset
\* and adds one reader call; only an upload or a removal changes the Dataset.
C10_DatasetFixedByUpload ==
    [][ /\ uploaded_file' = uploaded_file => df' = df
        /\ QuestionStep =>
              /\ uploaded_file' = uploaded_file
              /\ df' = df
              /\ parser_call' # "none"
              /\ loads' = loads + 1 ]_vars

\* a question is submitted on a Dataset that has been loaded three times
C10_Witness ==
    /\ loads >= 3
    /\ df # None
    /\ Called

----------------------------------------------------------------------------
(* C11 *)

\* C11: a run of main calls analyze_with_pandasai at most once, and calls it
\* only if in that run a file is uploaded, load_data returned a Dataset, the
\* key is not empty, Analyze was pressed and the question is not empty (the
\* call then carries that Dataset, question and key); a run in which Analyze
\* was pressed on an empty question shows the warning and calls no engine.
C11_EngineCalledOnceWhenAsked ==
    /\ engine_calls <= 1
    /\ Called <=> engine_calls = 1
    /\ engine_calls > 0 =>
          /\ uploaded_file # None
          /\ df # None
          /\ Truthy(api_key)
          /\ analyze_btn
          /\ Truthy(user_question)
          /\ engine_call.df = df
          /\ engine_call.question = user_question
          /\ engine_call.api_token = api_key
    /\ (analyze_btn /\ ~Truthy(user_question)) =>
          /\ "empty_question_warning" \in screen
          /\ engine_calls = 0
          /\ ~Dispatched

\* Analyze was pressed on a question and the engine was called, once
C11_Witness ==
    /\ analyze_btn
    /\ Truthy(user_question)
    /\ uploaded_file # None
    /\ df # None
    /\ Truthy(api_key)
    /\ engine_calls = 1

----------------------------------------------------------------------------
(* C12 *)

\* C12: a bool the engine returns is dispatched as a number, not as text: it
\* takes the numeric path, the numeric callout is rendered and the text
\* output is not, and the callout reads 1.00 for True and 0.00 for False.
C12_BoolShownAsNumber ==
    (Dispatched /\ response.tag = "bool") =>
        /\ path = "numeric"
        /\ "result_number" \in screen
        /\ screen \cap {"result_text", "unexpected_error"} = {}
        /\ response = PyBool(TRUE) => body = "1.00"
        /\ response = PyBool(FALSE) => body = "0.00"

\* the engine returned True and the callout shows 1.00
C12_Witness ==
    /\ engine.kind = "return"
    /\ engine.value = PyBool(TRUE)
    /\ response.tag = "bool"
    /\ path = "numeric"
    /\ body = "1.00"

====
